---- MODULE Spec2Model ----
(***************************************************************************)
(* Model of src/job_agent.py: the interactive session of lines 128-143     *)
(* around the agent executor built at lines 117-126 (zero-shot ReAct agent *)
(* over the two tools of lines 101-115, with a ConversationBufferMemory).  *)
(*                                                                         *)
(* The executor is built with the keyword arguments of lines 120-126 only, *)
(* so its loop runs with the framework defaults: an iteration limit,       *)
(* early stopping by a forced stop response, no time limit, and parsing    *)
(* errors not handled (they are raised).                                   *)
(*                                                                         *)
(* The model starts after the module body (lines 1-126) has run, i.e. with *)
(* the decorator name used at lines 48 and 66 bound to the framework's     *)
(* tool decorator.                                                         *)
(***************************************************************************)
EXTENDS Integers, Sequences, FiniteSets, TLC

VARIABLES
    pc,                  \* where the session is: "input", "should_continue", "plan", "tool", "exited", "crashed"
    serpapi_key,         \* os.getenv("SERPAPI_API_KEY"), fixed for the process
    user_input,          \* line 132
    inputs,              \* the chain inputs of the running call: the request and the memory loaded for it
    memory,              \* line 118: the buffer of messages, oldest first
    intermediate_steps,  \* the scratchpad of the running call
    iterations,          \* the loop counter of the running call
    agent_scratchpad,    \* the scratchpad handed to the reasoning call in flight
    llm_output,          \* the last completion the model returned in this call
    next_action,         \* the tool call in flight
    tool_log,            \* the registered tools run in this call, in order
    parse_errors,        \* completions of this call that did not parse
    ended_by,            \* how the last call ended: "none", "finish", "stopped", "raised"
    stdout,              \* the last thing printed (lines 129, 139-140, 143)
    served               \* requests handed to the agent so far

vars == <<pc, serpapi_key, user_input, inputs, memory, intermediate_steps,
          iterations, agent_scratchpad, llm_output, next_action, tool_log,
          parse_errors, ended_by, stdout, served>>

\* ------------------------------------------------------------------ bounds

\* The executor's iteration limit.  Lines 120-126 do not set it, so the
\* framework default (15) applies; the loop is the same for any limit >= 1
\* and the model runs it with a small one.
max_iterations == 3

\* Requests read in one session.
MaxRequests == 2

\* Cap on the scratchpad of the model, above anything the loop reaches.
StepCap == max_iterations + 2

\* ------------------------------------------------------------------ values

None == "<none>"

ExitWords == {"exit", "Exit", "EXIT"}
RequestTexts == {"Find AI engineer jobs in Austin", "Email them to me"}
UserInputs == ExitWords \cup RequestTexts

\* str.lower() on the inputs of the model (line 133).
Lower(s) ==
    CASE s = "exit" -> "exit"
      [] s = "Exit" -> "exit"
      [] s = "EXIT" -> "exit"
      [] s = "Email them to me" -> "email them to me"
      [] s = "Find AI engineer jobs in Austin" -> "find ai engineer jobs in austin"
      [] OTHER -> s

\* lines 101-115: the registered tools, in order.
tools == <<"get_job_postings", "send_job_email">>
name_to_tool_map == {tools[i] : i \in 1..Len(tools)}

SearchQuery == "AI engineer jobs in Austin"
EmailInput == "{recipient_email, job_details}"
FinalAnswer == "Here are the jobs I found."

\* What the language model may return for one reasoning call: the labelled
\* lines of the completion that are present.
Completion(action, action_input, final) ==
    [thought |-> "I need to decide what to do.",
     action |-> action, action_input |-> action_input, final |-> final]

Completions ==
    { Completion("get_job_postings", SearchQuery, None),
      Completion("send_job_email", EmailInput, None),
      Completion("send_emial", EmailInput, None),
      Completion(None, None, FinalAnswer),
      Completion(None, None, None),
      Completion("get_job_postings", None, None) }

NoCompletion ==
    [thought |-> None, action |-> None, action_input |-> None, final |-> None]
NoAction == [tool |-> None, tool_input |-> None]
NoInputs == [input |-> None, chat_history |-> <<>>]

\* ------------------------------------------------------------------ memory

HumanMessage(text) == [role |-> "user", text |-> text]
AIMessage(text) == [role |-> "agent", text |-> text]

save_context_answer_only(mem, input, output) == mem \o <<AIMessage(output)>>

save_context_window(mem, input, output) == <<HumanMessage(input), AIMessage(output)>>

\* ConversationBufferMemory.save_context (line 118): the request and the
\* answer are appended, in this order.
save_context(mem, input, output) ==
    mem \o <<HumanMessage(input), AIMessage(output)>>

\* ------------------------------------------------------------------ tools

Obs(text, arg) == [text |-> text, arg |-> arg]
Returned(value) == [raised |-> FALSE, value |-> value, exc |-> None]
Raised(exc) == [raised |-> TRUE, value |-> Obs(None, None), exc |-> exc]

\* What the search service does with one request (lines 82-83).
Upstreams == {"transport_error", "not_json", "no_results", "results"}

\* lines 66-96.  The missing key is the only failure turned into a string;
\* requests.get (line 82) and response.json() (line 83) are not guarded.
get_job_postings(query, key, upstream) ==
    IF key = None
    THEN Returned(Obs("Error: SERPAPI_API_KEY not set. Cannot perform search.", None))
    ELSE IF upstream = "transport_error" THEN Raised("ConnectionError")
    ELSE IF upstream = "not_json" THEN Raised("JSONDecodeError")
    ELSE IF upstream = "results"
         THEN Returned(Obs("[{title, company, location, link}]", query))
         ELSE Returned(Obs("[]", query))

\* What the mail server does with one message (lines 40-43).
Smtps == {"accepted", "refused"}

\* lines 32-46: every exception of the SMTP exchange is caught and returned.
send_email(to_email, smtp) ==
    IF smtp = "accepted"
    THEN Obs("Email successfully sent to", to_email)
    ELSE Obs("Failed to send email. Error:", "SMTPException")

\* lines 48-64, run through line 112 with the single string the agent gives.
\* The function takes two parameters (line 49); binds says whether the tool
\* wrapper maps the one string onto them, and when it does not the call
\* raises before line 56 is reached.
send_job_email(tool_input, binds, smtp) ==
    IF ~binds THEN Raised("ValidationError")
    ELSE Returned(send_email("recipient_email", smtp))

\* The outcomes of running a registered tool (lines 105, 112).
ToolOutcomes(name, tool_input, key) ==
    IF name = "get_job_postings"
    THEN {get_job_postings(tool_input, key, u) : u \in Upstreams}
    ELSE {send_job_email(tool_input, b, m) : b \in BOOLEAN, m \in Smtps}

\* The observation recorded for an action that names no registered tool.
InvalidToolObservation(name) ==
    Obs("is not a valid tool, try one of [get_job_postings, send_job_email].", name)

AgentStep(action, observation) ==
    [tool |-> action.tool, tool_input |-> action.tool_input,
     observation |-> observation]

\* ------------------------------------------------------------------ agent

\* The agent's output parser (line 123, ZERO_SHOT_REACT_DESCRIPTION): an
\* Action line with an Action Input line is an action, a Final Answer line
\* is the end, anything else is a parsing error.
parse(c) ==
    LET action_match == c.action # None /\ c.action_input # None
        includes_answer == c.final # None
    IN  IF action_match /\ includes_answer THEN [kind |-> "error"]
        ELSE IF action_match
             THEN [kind |-> "action", tool |-> c.action, tool_input |-> c.action_input]
        ELSE IF includes_answer
             THEN [kind |-> "finish", output |-> c.final]
        ELSE [kind |-> "error"]

handle_parsing_errors_on == TRUE

\* lines 120-126: handle_parsing_errors is not passed.
handle_parsing_errors == FALSE

should_continue_off_by_one(n) == n <= max_iterations

should_continue_always(n) == TRUE

\* lines 120-126: no max_execution_time, so only the iteration limit counts.
should_continue(n) == n < max_iterations

return_stopped_response_generate == FinalAnswer

\* lines 120-126: early_stopping_method is not passed ("force").
return_stopped_response == "Agent stopped due to iteration limit or time limit."

keep_intermediate_steps(old) == old

\* The scratchpad a call starts with (line 138 starts a new call).
new_intermediate_steps(old) == <<>>

lookup_tool_unchecked(name) == name

\* The tool the executor runs for an action: the registered one, or the
\* invalid-tool stand-in.
lookup_tool(name) == IF name \in name_to_tool_map THEN name ELSE "invalid_tool"

\* line 141: except Exception.
ExceptionClasses ==
    {"ValueError", "APIError", "ConnectionError", "JSONDecodeError",
     "ValidationError", "KeyError"}
caught_value_error_only(exc) == exc = "ValueError"

caught(exc) == exc \in ExceptionClasses

\* ------------------------------------------------------------------ state

Init ==
    /\ pc = "input"
    /\ serpapi_key \in {None, "key"}
    /\ user_input = None
    /\ inputs = NoInputs
    /\ memory = <<>>
    /\ intermediate_steps = <<>>
    /\ iterations = 0
    /\ agent_scratchpad = <<>>
    /\ llm_output = NoCompletion
    /\ next_action = NoAction
    /\ tool_log = <<>>
    /\ parse_errors = 0
    /\ ended_by = "none"
    /\ stdout = [kind |-> "banner", text |-> "Agentic Job Finder is running. Type 'exit' to quit."]
    /\ served = 0

\* The locals of an ended call are left as they were; the next call sets
\* them anew (HandleRequest).
KeepLocals ==
    UNCHANGED <<intermediate_steps, iterations, agent_scratchpad, next_action, tool_log>>

\* The call returns output: the chain saves the exchange to memory, line 138
\* gets the output and lines 139-140 print it.
Return(how, output) ==
    /\ memory' = save_context(memory, inputs.input, output)
    /\ stdout' = [kind |-> "response", text |-> output]
    /\ ended_by' = how
    /\ pc' = "input"
    /\ KeepLocals

\* The call raises exc: nothing is saved; line 141 catches it and line 143
\* prints it, or the exception leaves the loop of line 131.
Raise(exc) ==
    /\ memory' = memory
    /\ ended_by' = "raised"
    /\ KeepLocals
    /\ IF caught(exc)
       THEN /\ pc' = "input"
            /\ stdout' = [kind |-> "error", text |-> exc]
       ELSE /\ pc' = "crashed"
            /\ stdout' = [kind |-> "traceback", text |-> exc]

\* One pass of the loop is over: the step is recorded and counted.
Record(step) ==
    /\ intermediate_steps' = Append(intermediate_steps, step)
    /\ iterations' = iterations + 1
    /\ pc' = "should_continue"
    /\ next_action' = NoAction
    /\ UNCHANGED <<memory, ended_by, stdout, agent_scratchpad>>

\* ------------------------------------------------------------------ session

\* lines 132-134: the input is the exit word.
Exit ==
    /\ pc = "input"
    /\ \E text \in UserInputs :
        /\ Lower(text) = "exit"
        /\ user_input' = text
    /\ pc' = "exited"
    /\ UNCHANGED <<serpapi_key, inputs, memory, intermediate_steps, iterations,
                   agent_scratchpad, llm_output, next_action, tool_log,
                   parse_errors, ended_by, stdout, served>>

\* lines 132-138: any other input starts a call of the agent, which loads
\* the memory into its inputs and starts with an empty scratchpad.
HandleRequest ==
    /\ pc = "input"
    /\ served < MaxRequests
    /\ \E text \in UserInputs :
        /\ Lower(text) # "exit"
        /\ user_input' = text
        /\ inputs' = [input |-> text, chat_history |-> memory]
    /\ intermediate_steps' = new_intermediate_steps(intermediate_steps)
    /\ iterations' = 0
    /\ agent_scratchpad' = <<>>
    /\ llm_output' = NoCompletion
    /\ next_action' = NoAction
    /\ tool_log' = <<>>
    /\ parse_errors' = 0
    /\ ended_by' = "none"
    /\ served' = served + 1
    /\ pc' = "should_continue"
    /\ UNCHANGED <<serpapi_key, memory, stdout>>

\* The loop test holds: the model is called with the scratchpad so far.
LoopEnter ==
    /\ pc = "should_continue"
    /\ should_continue(iterations)
    /\ Len(intermediate_steps) < StepCap
    /\ agent_scratchpad' = intermediate_steps
    /\ pc' = "plan"
    /\ UNCHANGED <<serpapi_key, user_input, inputs, memory, intermediate_steps,
                   iterations, llm_output, next_action, tool_log, parse_errors,
                   ended_by, stdout, served>>

\* The loop test fails: the call returns the stop response.
LoopStopped ==
    /\ pc = "should_continue"
    /\ ~should_continue(iterations)
    /\ Return("stopped", return_stopped_response)
    /\ UNCHANGED <<serpapi_key, user_input, inputs, llm_output, parse_errors, served>>

\* The model call itself fails.
PlanLLMError ==
    /\ pc = "plan"
    /\ llm_output' = NoCompletion
    /\ Raise("APIError")
    /\ UNCHANGED <<serpapi_key, user_input, inputs, parse_errors, served>>

\* The completion is a final answer.
PlanFinish ==
    /\ pc = "plan"
    /\ \E c \in Completions :
        /\ parse(c).kind = "finish"
        /\ llm_output' = c
        /\ Return("finish", parse(c).output)
    /\ UNCHANGED <<serpapi_key, user_input, inputs, parse_errors, served>>

\* The completion does not parse.
PlanParseError ==
    /\ pc = "plan"
    /\ \E c \in Completions :
        /\ parse(c).kind = "error"
        /\ llm_output' = c
    /\ parse_errors' = parse_errors + 1
    /\ IF handle_parsing_errors
       THEN /\ Record(AgentStep([tool |-> "_Exception", tool_input |-> None],
                                Obs("Invalid or incomplete response", None)))
            /\ UNCHANGED tool_log
       ELSE Raise("ValueError")
    /\ UNCHANGED <<serpapi_key, user_input, inputs, served>>

\* The completion names a registered tool: it is run.
PlanAction ==
    /\ pc = "plan"
    /\ \E c \in Completions :
        /\ parse(c).kind = "action"
        /\ lookup_tool(parse(c).tool) \in name_to_tool_map
        /\ llm_output' = c
        /\ next_action' = [tool |-> parse(c).tool, tool_input |-> parse(c).tool_input]
    /\ pc' = "tool"
    /\ UNCHANGED <<serpapi_key, user_input, inputs, memory, intermediate_steps,
                   iterations, agent_scratchpad, tool_log, parse_errors,
                   ended_by, stdout, served>>

\* The completion names no registered tool: the invalid-tool observation is
\* recorded as the step's observation and the loop goes on.
PlanInvalidTool ==
    /\ pc = "plan"
    /\ \E c \in Completions :
        /\ parse(c).kind = "action"
        /\ lookup_tool(parse(c).tool) \notin name_to_tool_map
        /\ llm_output' = c
        /\ IF lookup_tool(parse(c).tool) = "invalid_tool"
           THEN /\ Record(AgentStep([tool |-> parse(c).tool,
                                     tool_input |-> parse(c).tool_input],
                                    InvalidToolObservation(parse(c).tool)))
                /\ UNCHANGED tool_log
           ELSE Raise("KeyError")
    /\ UNCHANGED <<serpapi_key, user_input, inputs, parse_errors, served>>

\* The tool returns: its result is the step's observation.
ToolReturn ==
    /\ pc = "tool"
    /\ \E r \in ToolOutcomes(next_action.tool, next_action.tool_input, serpapi_key) :
        /\ ~r.raised
        /\ Record(AgentStep(next_action, r.value))
    /\ tool_log' = Append(tool_log, next_action.tool)
    /\ UNCHANGED <<serpapi_key, user_input, inputs, llm_output, parse_errors, served>>

\* The tool raises: the call raises.
ToolRaise ==
    /\ pc = "tool"
    /\ \E r \in ToolOutcomes(next_action.tool, next_action.tool_input, serpapi_key) :
        /\ r.raised
        /\ Raise(r.exc)
    /\ UNCHANGED <<serpapi_key, user_input, inputs, llm_output, parse_errors, served>>

CallStep ==
    \/ LoopEnter
    \/ LoopStopped
    \/ PlanLLMError
    \/ PlanFinish
    \/ PlanParseError
    \/ PlanAction
    \/ PlanInvalidTool
    \/ ToolReturn
    \/ ToolRaise

Next ==
    \/ Exit
    \/ HandleRequest
    \/ LoopEnter
    \/ LoopStopped
    \/ PlanLLMError
    \/ PlanFinish
    \/ PlanParseError
    \/ PlanAction
    \/ PlanInvalidTool
    \/ ToolReturn
    \/ ToolRaise

Spec == Init /\ [][Next]_vars

\* Every reasoning call and every tool call returns or raises.
FairSpec == Spec /\ WF_vars(CallStep)

\* ------------------------------------------------------------------ claims

Last(seq) == seq[Len(seq)]
IsPrefix(a, b) == Len(a) <= Len(b) /\ SubSeq(b, 1, Len(a)) = a
InCall == {"should_continue", "plan", "tool"}
Registered(steps) == {i \in DOMAIN steps : steps[i].tool \in name_to_tool_map}

\* C1: a call that ends with a final answer leaves the memory it started
\* with followed by exactly two turns, the user's request and then the
\* agent's final answer.
C1_FinishAppendsTwoTurns ==
    ended_by = "finish" =>
        /\ stdout = [kind |-> "response", text |-> llm_output.final]
        /\ memory = inputs.chat_history \o
                      << [role |-> "user", text |-> inputs.input],
                         [role |-> "agent", text |-> llm_output.final] >>

C1_Witness ==
    /\ ended_by = "finish"
    /\ pc = "input"
    /\ Len(inputs.chat_history) = 2
    /\ intermediate_steps # <<>>

C3_ScratchpadBounded == Len(intermediate_steps) <= max_iterations

C3_Witness ==
    /\ pc = "should_continue"
    /\ Len(intermediate_steps) = max_iterations
    /\ \E i \in DOMAIN intermediate_steps :
          intermediate_steps[i].tool \notin name_to_tool_map

\* C4: every call that is started ends, provided each reasoning call and
\* each tool call returns or raises.
C4_CallEnds ==
    (pc = "should_continue" /\ iterations = 0) ~> (pc = "input" /\ ended_by # "none")

C4_Witness ==
    /\ pc = "input"
    /\ ended_by = "stopped"
    /\ Len(tool_log) = max_iterations

UnknownDecision ==
    /\ parse(llm_output).kind = "action"
    /\ llm_output.action \notin name_to_tool_map

\* C5: after a completion that names an unregistered tool the call is not
\* aborted, the step is recorded with the invalid-tool observation and
\* counted, no registered tool was run for it, and the next reasoning call
\* gets a scratchpad that ends with that step.
C5_UnknownToolFedBack ==
    UnknownDecision =>
        /\ ended_by \in {"none", "stopped"}
        /\ pc \in {"should_continue", "plan", "input", "exited"}
        /\ intermediate_steps # <<>>
        /\ Last(intermediate_steps) =
              [tool |-> llm_output.action, tool_input |-> llm_output.action_input,
               observation |-> InvalidToolObservation(llm_output.action)]
        /\ iterations = Len(intermediate_steps)
        /\ Len(tool_log) = Cardinality(Registered(intermediate_steps))
        /\ (pc = "plan" => agent_scratchpad = intermediate_steps)

C5_Witness ==
    /\ UnknownDecision
    /\ pc = "plan"
    /\ Last(agent_scratchpad).observation = InvalidToolObservation("send_emial")

\* C6: a registered tool never raises into the loop: no call ends by an
\* exception coming out of a tool that was in flight.
C6_ToolsNeverRaise ==
    ~(ended_by = "raised" /\ next_action.tool \in name_to_tool_map)

StepLeavingSession == pc # "exited" /\ pc' = "exited"

\* C7: no failed call ends the session: the exception is printed and the
\* session is back at its prompt, and the session is left only from the
\* prompt, on the exit word.
C7_SessionSurvivesFailures ==
    /\ [](pc # "crashed")
    /\ [](ended_by = "raised" => pc \in {"input", "exited"} /\ stdout.kind = "error")
    /\ [][StepLeavingSession => pc = "input" /\ Lower(user_input') = "exit"]_vars

C7_Witness ==
    /\ pc = "plan"
    /\ served = 2
    /\ stdout.kind = "error"
    /\ stdout.text \in {"ConnectionError", "JSONDecodeError", "ValidationError"}

\* C8: after a completion that does not parse, at most one more reasoning
\* call is made in that call before it is aborted with the parse failure
\* reported, and the aborted call leaves the memory as it was.
C8_ParseErrorAborts ==
    /\ (pc = "plan" => parse_errors <= 1)
    /\ (parse_errors >= 2 => parse_errors = 2 /\ ended_by = "raised")
    /\ (ended_by = "raised" /\ llm_output # NoCompletion
                             /\ parse(llm_output).kind = "error" =>
           /\ stdout = [kind |-> "error", text |-> "ValueError"]
           /\ parse_errors >= 1
           /\ memory = inputs.chat_history)

C8_Witness ==
    /\ ended_by = "raised"
    /\ llm_output = Completion(None, None, None)
    /\ parse_errors = 1
    /\ intermediate_steps # <<>>
    /\ memory # <<>>

\* C9: the memory only grows at its end: after every step the memory of
\* before is a prefix of the memory of after.
C9_MemoryAppendOnly == [][IsPrefix(memory, memory')]_vars

C9_Witness ==
    /\ Len(memory) = 4
    /\ memory[1] = memory[3]
    /\ memory[2] = memory[4]

StepInsideCall ==
    pc \in InCall /\ ~(pc' = "input" /\ ended_by' \in {"finish", "stopped"})

StepStartingCall == pc = "input" /\ pc' = "should_continue"

\* C10: no step of a call other than its return changes the memory, every
\* call starts with an empty scratchpad, and the memory holds only requests
\* and answers, never a step of a scratchpad.
C10_ScratchpadIsLocal ==
    /\ [][StepInsideCall => memory' = memory]_vars
    /\ [][StepStartingCall => intermediate_steps' = <<>>]_vars
    /\ [](\A i \in DOMAIN memory :
            memory[i] \in [role : {"user", "agent"},
                           text : RequestTexts \cup {FinalAnswer, return_stopped_response}])

C10_Witness ==
    /\ served = 2
    /\ pc = "tool"
    /\ Len(intermediate_steps) = 1
    /\ stdout.text = return_stopped_response
    /\ Len(memory) = 2

====
